---- MODULE Spec2Model ----
(***************************************************************************)
(* Model of theZoo_gui.py: the Tkinter view/controller TheZooGUI.          *)
(*                                                                         *)
(* Text is modelled as a sequence of one-character strings, so that        *)
(* str.strip, str.lower and the `in` substring test are computed and not   *)
(* assumed.  A handler of the Tk main loop is one action; on_close is      *)
(* split at its two statements because the order of the two is observable. *)
(***************************************************************************)
EXTENDS Integers, Sequences, FiniteSets, TLC

VARIABLES
    pc,             \* position of run(): "init" | "mainloop" | "on_close_145" | "destroyed"
    db_open,        \* self.db: the connection is open
    partial_calls,  \* number of calls of self.db.get_partial_details()
    malware_rows,   \* self.malware_rows, the row cache
    search_var,     \* self.search_var, the content of the filter entry
    entry_dirty,    \* the entry was edited since _filter_rows last ran
    tree,           \* self.tree: the rows displayed, top to bottom
    selection,      \* self.tree.selection(): ids of the selected rows
    status_var,     \* self.status_var
    details_button, \* state of self.details_button: "disabled" | "normal"
    shown,          \* messagebox dialogs shown by the handler that ran last
    last            \* the handler that ran last and how its database call ended

vars == <<pc, db_open, partial_calls, malware_rows, search_var, entry_dirty,
          tree, selection, status_var, details_button, shown, last>>

----------------------------------------------------------------------------
(* Bounds of the model *)

MaxRows == 2
MaxLen == 1

----------------------------------------------------------------------------
(* Text primitives *)

Upper == <<"A","B","C","D","E","F","G","H","I","J","K","L","M",
           "N","O","P","Q","R","S","T","U","V","W","X","Y","Z">>
LowerL == <<"a","b","c","d","e","f","g","h","i","j","k","l","m",
            "n","o","p","q","r","s","t","u","v","w","x","y","z">>

\* str.lower() on one character
LowerChar(c) ==
    IF \E i \in 1..26 : Upper[i] = c
    THEN LowerL[CHOOSE i \in 1..26 : Upper[i] = c]
    ELSE c

\* str.lower()
Lower(s) == [i \in 1..Len(s) |-> LowerChar(s[i])]

IsSpace(c) == c \in {" ", "\t", "\n"}

RECURSIVE LStrip(_)
LStrip(s) == IF s # <<>> /\ IsSpace(Head(s)) THEN LStrip(Tail(s)) ELSE s

RECURSIVE RStrip(_)
RStrip(s) ==
    IF s # <<>> /\ IsSpace(s[Len(s)]) THEN RStrip(SubSeq(s, 1, Len(s) - 1)) ELSE s

\* str.strip()
Strip(s) == RStrip(LStrip(s))

\* the `in` operator on strings: t in s
Contains(s, t) ==
    \E i \in 0..(Len(s) - Len(t)) : SubSeq(s, i + 1, i + Len(t)) = t

Digit(d) == <<"0","1","2","3","4","5","6","7","8","9">>[d + 1]

\* str(n) for a natural number n
RECURSIVE IntToStr(_)
IntToStr(n) == IF n < 10 THEN <<Digit(n)>> ELSE IntToStr(n \div 10) \o <<Digit(n % 10)>>

\* str(value) for the value in column i of a row: the id is an integer, the
\* other columns are strings
StrOf(row, i) == IF i = 1 THEN IntToStr(row[1]) ELSE row[i]

----------------------------------------------------------------------------
(* Values supplied by the environment: the database and the user *)

\* rows that DBHandler.get_partial_details() can return:
\* (id, type, language, architecture, platform, name)
Row1 == <<1, <<"T","r","o","j","a","n">>, <<"C">>, <<"x","8","6">>,
          <<"W","i","n">>, <<"A">>>>
Row2 == <<2, <<"W","o","r","m">>, <<"P","y","t","h","o","n">>, <<"x","6","4">>,
          <<"L","i","n","u","x">>, <<"B">>>>
Row3 == <<12, <<"R","A","T">>, <<"C">>, <<"x","6","4">>,
          <<"L","i","n","u","x">>, <<"a"," ","b">>>>
RowPool == {Row1, Row2, Row3}

UniqueIds(rows) ==
    \A i, j \in 1..Len(rows) : rows[i][1] = rows[j][1] => i = j

\* the row lists the database can hand out: ids are unique
RowLists ==
    {rows \in UNION {[1..n -> RowPool] : n \in 0..MaxRows} : UniqueIds(rows)}

\* messages of the exceptions the database calls can raise
ErrMsgs == {"database is locked", ""}

\* characters the user types into the filter entry
Alphabet == {"L", " "}

\* texts pasted into the filter entry
Pasted ==
    {<<"l","i","n","u","x">>, <<" ","W","i","n"," ">>, <<"a"," ","b">>,
     <<"1">>, <<"x">>}

Texts == UNION {[1..n -> Alphabet] : n \in 0..MaxLen} \cup Pasted

\* a field of a detail tuple: None or a string
None == [tag |-> "None", s |-> <<>>]
Some(s) == [tag |-> "str", s |-> s]

\* the tuple get_mal_info returns with every field present:
\* (type, name, version, author, language, date, architecture, platform, tags)
FullDetail ==
    <<Some(<<"W","o","r","m">>), Some(<<"B">>), Some(<<"1",".","0">>),
      Some(<<"m","e">>), Some(<<"P","y">>), Some(<<"2","0","1","4">>),
      Some(<<"x","6","4">>), Some(<<"L","i","n","u","x">>), Some(<<"n","e","t">>)>>

\* detail tuples the database can return: all fields present, all None, and
\* for every field the tuple where it is None and the next one is empty
Details ==
    {FullDetail, [i \in 1..9 |-> None]}
    \cup {[FullDetail EXCEPT ![i] = None, ![(i % 9) + 1] = Some(<<>>)] : i \in 1..9}

----------------------------------------------------------------------------
(* messagebox *)

showerror(title, message) == [kind |-> "error", title |-> title, message |-> message]
showinfo(title, message) == [kind |-> "info", title |-> title, message |-> message]

\* what the handler that ran last did at the database: the operation, how the
\* call ended, the message of the exception, the id asked for and the result
Call(op, outcome, msg, arg, result) ==
    [op |-> op, outcome |-> outcome, msg |-> msg, arg |-> arg, result |-> result]
Handler(op) == Call(op, "none", "", 0, <<>>)

----------------------------------------------------------------------------
(* TheZooGUI *)

\* f"Loaded {len(rows)} entries"
StatusText(n) == <<"Loaded ">> \o IntToStr(n) \o <<" entries">>

\* __init__ up to and including _build_layout()
Init ==
    /\ pc = "init"
    /\ db_open = TRUE
    /\ partial_calls = 0
    /\ malware_rows = <<>>
    /\ search_var = <<>>
    /\ entry_dirty = FALSE
    /\ tree = <<>>
    /\ selection = {}
    /\ status_var = StatusText(0)
    /\ details_button = "disabled"
    /\ shown = <<>>
    /\ last = Handler("none")

\* _refresh_tree without its last statement: the button keeps its state
refresh_tree_keeps_button(rows) ==
    /\ tree' = rows
    /\ selection' = {}
    /\ status_var' = StatusText(Len(rows))
    /\ details_button' = details_button

\* _refresh_tree(rows): deleting every item empties the selection
refresh_tree(rows) ==
    /\ tree' = rows
    /\ selection' = {}
    /\ status_var' = StatusText(Len(rows))
    /\ details_button' = "disabled"

\* the except clause of _load_data without the showerror call
load_data_except_silent(m) ==
    /\ malware_rows' = <<>>
    /\ shown' = <<>>
    /\ last' = Call("load", "raise", m, 0, <<>>)

\* the except clause of _load_data: get_partial_details raised, str(exc) = m
load_data_except(m) ==
    /\ malware_rows' = <<>>
    /\ shown' = <<showerror("Database Error", <<m>>)>>
    /\ last' = Call("load", "raise", m, 0, <<>>)

\* _load_data(), the last statement of __init__; run() then enters mainloop
load_data ==
    /\ pc = "init"
    /\ pc' = "mainloop"
    /\ partial_calls' = partial_calls + 1
    /\ \/ \E rows \in RowLists :
            /\ malware_rows' = rows
            /\ shown' = <<>>
            /\ last' = Call("load", "ok", "", 0, <<>>)
       \/ \E m \in ErrMsgs : load_data_except(m)
    /\ refresh_tree(malware_rows')
    /\ UNCHANGED <<db_open, search_var, entry_dirty>>

\* the user changes the content of the filter entry (typing, deleting, pasting)
edit_entry ==
    /\ pc = "mainloop"
    /\ \E t \in Texts : search_var' = t
    /\ entry_dirty' = TRUE
    /\ shown' = <<>>
    /\ last' = Handler("edit")
    /\ UNCHANGED <<pc, db_open, partial_calls, malware_rows, tree, selection,
                   status_var, details_button>>

\* any(text in str(value) for value in row): the values keep their case
any_value_case_sensitive(row, text) ==
    \E i \in 1..Len(row) : Contains(StrOf(row, i), text)

\* any(text in str(value).lower() for value in row)
any_value(row, text) ==
    \E i \in 1..Len(row) : Contains(Lower(StrOf(row, i)), text)

\* [row for row in self.malware_rows if all(...)]
filtered_all_values(rows, text) ==
    SelectSeq(rows, LAMBDA row :
        \A i \in 1..Len(row) : Contains(Lower(StrOf(row, i)), text))

\* [row for row in self.malware_rows if any(...)]
filtered(rows, text) == SelectSeq(rows, LAMBDA row : any_value(row, text))

\* _filter_rows storing the filtered list in self.malware_rows
filter_rows_overwrites_cache ==
    /\ pc = "mainloop"
    /\ LET text == Lower(Strip(search_var))
       IN  IF text = <<>>
           THEN /\ malware_rows' = malware_rows
                /\ refresh_tree(malware_rows)
           ELSE /\ malware_rows' = filtered(malware_rows, text)
                /\ refresh_tree(malware_rows')
    /\ entry_dirty' = FALSE
    /\ shown' = <<>>
    /\ last' = Handler("filter")
    /\ UNCHANGED <<pc, db_open, partial_calls, search_var>>

\* _filter_rows(event), bound to <KeyRelease> of the filter entry
filter_rows ==
    /\ pc = "mainloop"
    /\ LET text == Lower(Strip(search_var))
       IN  IF text = <<>>
           THEN refresh_tree(malware_rows)
           ELSE refresh_tree(filtered(malware_rows, text))
    /\ entry_dirty' = FALSE
    /\ shown' = <<>>
    /\ last' = Handler("filter")
    /\ UNCHANGED <<pc, db_open, partial_calls, malware_rows, search_var>>

\* the item ids of the table, top to bottom: iid=str(row[0])
TreeIids == [i \in 1..Len(tree) |-> IntToStr(tree[i][1])]

Range(f) == {f[i] : i \in DOMAIN f}

\* _on_select(event), bound to <<TreeviewSelect>>: the widget has set the
\* selection to sel and dispatches the event
on_select ==
    /\ pc = "mainloop"
    /\ \E sel \in SUBSET Range(TreeIids) :
          /\ selection' = sel
          /\ LET has_selection == sel # {}
             IN  details_button' = IF has_selection THEN "normal" ELSE "disabled"
    /\ shown' = <<>>
    /\ last' = Handler("select")
    /\ UNCHANGED <<pc, db_open, partial_calls, malware_rows, search_var,
                   entry_dirty, tree, status_var>>

\* self.tree.selection(): the selected items in the order of the table
SelectionTuple == SelectSeq(TreeIids, LAMBDA iid : iid \in selection)

DigitValue(c) == CHOOSE d \in 0..9 : Digit(d) = c

\* int(s) for a string of decimal digits
RECURSIVE StrToInt(_)
StrToInt(s) ==
    IF s = <<>> THEN 0
    ELSE 10 * StrToInt(SubSeq(s, 1, Len(s) - 1)) + DigitValue(s[Len(s)])

NA == <<"N", "/", "A">>

\* f"{x if x is not None else 'N/A'}": the empty string is shown as it is
OrNA_none_only(x) == IF x.tag = "str" THEN x.s ELSE NA

\* f"{x or 'N/A'}": None and the empty string are falsy
OrNA(x) == IF x.tag = "str" /\ x.s # <<>> THEN x.s ELSE NA

\* info_lines of _show_selected_details for result[0] = d
info_lines(d) ==
    LET mal_type == d[1]
        name == d[2]
        version == d[3]
        author == d[4]
        language == d[5]
        date == d[6]
        architecture == d[7]
        platform == d[8]
        tags == d[9]
    IN  << <<"Name: ">> \o OrNA(name),
           <<"Type: ">> \o OrNA(mal_type),
           <<"Version: ">> \o OrNA(version),
           <<"Author: ">> \o OrNA(author),
           <<"Language: ">> \o OrNA(language),
           <<"Date: ">> \o OrNA(date),
           <<"Architecture: ">> \o OrNA(architecture),
           <<"Platform: ">> \o OrNA(platform),
           <<"Tags: ">> \o OrNA(tags) >>

\* sep.join(lines)
RECURSIVE Join(_, _)
Join(sep, lines) ==
    IF lines = <<>> THEN <<>>
    ELSE IF Len(lines) = 1 THEN lines[1]
    ELSE lines[1] \o sep \o Join(sep, Tail(lines))

\* the except clause of _show_selected_details setting result = [] where it
\* should return: the handler goes on to `if not result`
details_except_no_return(m, mal_id) ==
    /\ shown' = <<showerror("Database Error", <<m>>),
                  showinfo("Malware Info", <<"No additional metadata available.">>)>>
    /\ last' = Call("details", "raise", m, mal_id, <<>>)

\* the except clause of _show_selected_details: get_mal_info raised, str(exc) = m
details_except(m, mal_id) ==
    /\ shown' = <<showerror("Database Error", <<m>>)>>
    /\ last' = Call("details", "raise", m, mal_id, <<>>)

\* an empty result reported with showerror
details_empty_as_error(mal_id) ==
    /\ shown' = <<showerror("Malware Info", <<"No additional metadata available.">>)>>
    /\ last' = Call("details", "empty", "", mal_id, <<>>)

\* `if not result` of _show_selected_details: get_mal_info returned []
details_empty(mal_id) ==
    /\ shown' = <<showinfo("Malware Info", <<"No additional metadata available.">>)>>
    /\ last' = Call("details", "empty", "", mal_id, <<>>)

\* _show_selected_details(), the command of the Show Details button
show_selected_details ==
    /\ pc = "mainloop"
    /\ IF SelectionTuple = <<>>
       THEN /\ shown' = <<>>
            /\ last' = Handler("details")
       ELSE LET mal_id == StrToInt(SelectionTuple[1])
            IN  \/ \E m \in ErrMsgs : details_except(m, mal_id)
                \/ details_empty(mal_id)
                \/ \E d \in Details :
                     /\ shown' = <<showinfo("Malware Info",
                                            Join(<<"\n">>, info_lines(d)))>>
                     /\ last' = Call("details", "found", "", mal_id, <<d>>)
    /\ UNCHANGED <<pc, db_open, partial_calls, malware_rows, search_var,
                   entry_dirty, tree, selection, status_var, details_button>>

\* DBHandler.close_connection(): releases the connection and returns
close_connection(open) == FALSE

\* on_close() without the call of close_connection()
on_close_144_keeps_connection ==
    /\ pc = "mainloop"
    /\ db_open' = db_open
    /\ pc' = "on_close_145"
    /\ shown' = <<>>
    /\ last' = Handler("close")
    /\ UNCHANGED <<partial_calls, malware_rows, search_var, entry_dirty, tree,
                   selection, status_var, details_button>>

\* on_close(), the WM_DELETE_WINDOW handler: self.db.close_connection()
on_close_144 ==
    /\ pc = "mainloop"
    /\ db_open' = close_connection(db_open)
    /\ pc' = "on_close_145"
    /\ shown' = <<>>
    /\ last' = Handler("close")
    /\ UNCHANGED <<partial_calls, malware_rows, search_var, entry_dirty, tree,
                   selection, status_var, details_button>>

\* on_close(): self.root.destroy(), which ends mainloop
on_close_145 ==
    /\ pc = "on_close_145"
    /\ pc' = "destroyed"
    /\ UNCHANGED <<db_open, partial_calls, malware_rows, search_var, entry_dirty,
                   tree, selection, status_var, details_button, shown, last>>

Next ==
    \/ load_data
    \/ edit_entry
    \/ filter_rows
    \/ on_select
    \/ show_selected_details
    \/ on_close_144
    \/ on_close_145

Spec == Init /\ [][Next]_vars

\* on_close runs to its end once it has started
FairSpec == Spec /\ WF_vars(on_close_145)

----------------------------------------------------------------------------
(* Vocabulary of the properties *)

\* text t occurs, ignoring case, in some column of row r
RowContains(r, t) ==
    \E i \in 1..6 : Contains(Lower(StrOf(r, i)), Lower(t))

\* d lists exactly the rows of C that satisfy P, in the order they have in C
IsOrderedSelection(d, C, P(_)) ==
    \E f \in [1..Len(d) -> 1..Len(C)] :
        /\ \A i, j \in 1..Len(d) : i < j => f[i] < f[j]
        /\ \A i \in 1..Len(d) : d[i] = C[f[i]]
        /\ \A j \in 1..Len(C) : P(C[j]) <=> \E i \in 1..Len(d) : f[i] = j

Errors(dialogs) == SelectSeq(dialogs, LAMBDA d : d.kind = "error")
Infos(dialogs) == SelectSeq(dialogs, LAMBDA d : d.kind = "info")

----------------------------------------------------------------------------
(* C1 *)

\* C1 as stated: after construction the table always shows exactly the rows of
\* the cache that contain, ignoring case, the current content of the filter
\* entry in some column, and every row of the cache when the entry is empty.
C1_AlwaysCurrentFilter ==
    pc # "init" =>
        tree = IF search_var = <<>> THEN malware_rows
               ELSE SelectSeq(malware_rows, LAMBDA r : RowContains(r, search_var))

\* C1 amended: whenever the filter entry has not been edited since the last
\* keystroke event was handled (or since construction), the table shows exactly
\* the rows of the cache that contain, ignoring case, the content of the entry
\* with its leading and trailing whitespace removed, and every row of the cache
\* when nothing is left after the removal.
C1_FilterAsOfLastKeystroke ==
    ~entry_dirty =>
        tree = IF Strip(search_var) = <<>> THEN malware_rows
               ELSE SelectSeq(malware_rows,
                              LAMBDA r : RowContains(r, Strip(search_var)))

\* a keystroke event was handled with " Win " in the entry and the table shows
\* some rows of the cache but not all of them
C1_Witness ==
    /\ ~entry_dirty
    /\ last.op = "filter"
    /\ search_var = <<" ","W","i","n"," ">>
    /\ tree # <<>>
    /\ tree # malware_rows

----------------------------------------------------------------------------
(* C2 *)

\* C2 as stated: right after filter(T) ran on cache C, the table is C when T is
\* empty, and for a non-empty T it lists exactly the rows of C in which
\* T.lower() occurs in str(field).lower() for some field, in the order of C.
C2_FilterOfRawText ==
    last.op = "filter" =>
        IF search_var = <<>>
        THEN tree = malware_rows
        ELSE IsOrderedSelection(tree, malware_rows,
                                LAMBDA r : RowContains(r, search_var))

\* C2 amended: with T' = T.strip().lower(), right after filter(T) ran on cache C
\* the table is C when T' is empty, and otherwise it lists exactly the rows of
\* C in which T' occurs in str(field).lower() for some field, in the order of C.
C2_FilterOfStrippedText ==
    last.op = "filter" =>
        IF Strip(search_var) = <<>>
        THEN tree = malware_rows
        ELSE IsOrderedSelection(tree, malware_rows,
                                LAMBDA r : RowContains(r, Strip(search_var)))

\* Scenario A: the cache is rows 1 and 2, the filter is "linux", and the table
\* shows row 2 alone
C2_Witness ==
    /\ last.op = "filter"
    /\ malware_rows = <<Row1, Row2>>
    /\ search_var = <<"l","i","n","u","x">>
    /\ tree = <<Row2>>

----------------------------------------------------------------------------
(* C3 *)

\* C3: the Show Details button is enabled exactly when at least one row of
\* the table is selected.
C3_ButtonIffSelection ==
    details_button = "normal" <=> selection # {}

\* a row was selected and the button is enabled
C3_Witness ==
    /\ last.op = "select"
    /\ selection # {}
    /\ details_button = "normal"

----------------------------------------------------------------------------
(* C4 *)

\* C4: when get_partial_details raised in load(), load() has returned, exactly
\* one dialog was shown, an error dialog with the message of the exception,
\* the cache and the table are empty, the status reads "Loaded 0 entries" and
\* the button is disabled; and after any load() the table and the status are
\* those of a render of the cache.
C4_LoadFailure ==
    /\ (last.op = "load" /\ last.outcome = "raise") =>
          /\ pc = "mainloop"
          /\ Len(shown) = 1
          /\ shown[1].kind = "error"
          /\ shown[1].message = <<last.msg>>
          /\ malware_rows = <<>>
          /\ tree = <<>>
          /\ status_var = <<"Loaded ", "0", " entries">>
          /\ details_button = "disabled"
    /\ last.op = "load" =>
          /\ tree = malware_rows
          /\ status_var = <<"Loaded ">> \o IntToStr(Len(malware_rows)) \o <<" entries">>
          /\ selection = {}

\* get_partial_details raised "database is locked" in load()
C4_Witness ==
    /\ last.op = "load"
    /\ last.outcome = "raise"
    /\ last.msg = "database is locked"
    /\ Len(shown) = 1

----------------------------------------------------------------------------
(* C5 *)

\* C5: a show_details() in which get_mal_info raises shows exactly one dialog,
\* an error dialog with the message of the exception, returns to the main
\* loop, and leaves the cache, the table, the status, the selection and the
\* state of the button as they were.
C5_DetailFailure ==
    [][(last'.op = "details" /\ last'.outcome = "raise") =>
          /\ pc' = "mainloop"
          /\ Len(shown') = 1
          /\ shown'[1].kind = "error"
          /\ shown'[1].message = <<last'.msg>>
          /\ UNCHANGED <<malware_rows, tree, status_var, selection,
                         details_button>>]_vars

\* get_mal_info raised for the selected row while a filter hides a row
C5_Witness ==
    /\ last.op = "details"
    /\ last.outcome = "raise"
    /\ last.msg = "database is locked"
    /\ selection # {}
    /\ tree # malware_rows
    /\ details_button = "normal"

----------------------------------------------------------------------------
(* C6 *)

\* C6 as stated: when get_partial_details returned no rows, and when
\* get_mal_info returned an empty result, an informational dialog was shown,
\* no error dialog was shown, and the handler returned.
C6_AbsenceShowsInfo ==
    (\/ last.op = "load" /\ last.outcome = "ok" /\ malware_rows = <<>>
     \/ last.op = "details" /\ last.outcome = "empty") =>
        /\ Infos(shown) # <<>>
        /\ Errors(shown) = <<>>
        /\ pc = "mainloop"

\* C6 amended: when get_mal_info returned an empty result, exactly one dialog
\* was shown, an informational one, and the handler returned; when
\* get_partial_details returned no rows, no dialog at all was shown, the
\* status reads "Loaded 0 entries", and load() returned.
C6_AbsenceIsNoError ==
    /\ (last.op = "details" /\ last.outcome = "empty") =>
          /\ Len(shown) = 1
          /\ shown[1].kind = "info"
          /\ pc = "mainloop"
    /\ (last.op = "load" /\ last.outcome = "ok" /\ malware_rows = <<>>) =>
          /\ shown = <<>>
          /\ status_var = <<"Loaded ", "0", " entries">>
          /\ pc = "mainloop"

\* Scenario C: get_mal_info(1) returned []
C6_Witness ==
    /\ last.op = "details"
    /\ last.outcome = "empty"
    /\ last.arg = 1
    /\ Infos(shown) # <<>>

----------------------------------------------------------------------------
(* C7 *)

\* C7: the status line always reads "Loaded N entries" with N the number of
\* rows in the cache.
C7_StatusIsLoadedCount ==
    status_var = <<"Loaded ">> \o IntToStr(Len(malware_rows)) \o <<" entries">>

----------------------------------------------------------------------------
(* C8 *)

----------------------------------------------------------------------------
(* C9 *)

DetailLabels ==
    <<"Name: ", "Type: ", "Version: ", "Author: ", "Language: ", "Date: ",
      "Architecture: ", "Platform: ", "Tags: ">>

\* the position in the detail tuple of the field each line shows
DetailField == <<2, 1, 3, 4, 5, 6, 7, 8, 9>>

ExpectedLine(d, k) ==
    LET v == d[DetailField[k]]
    IN  <<DetailLabels[k]>> \o
        (IF v = None \/ v = Some(<<>>) THEN <<"N", "/", "A">> ELSE v.s)

\* C9: when get_mal_info returned a tuple, one informational dialog shows the
\* nine labelled lines, each with the value of its field, or N/A when the
\* field is None or the empty string.
C9_DetailLines ==
    (last.op = "details" /\ last.outcome = "found") =>
        /\ Len(shown) = 1
        /\ shown[1].kind = "info"
        /\ shown[1].message =
              ExpectedLine(last.result[1], 1) \o <<"\n">> \o
              ExpectedLine(last.result[1], 2) \o <<"\n">> \o
              ExpectedLine(last.result[1], 3) \o <<"\n">> \o
              ExpectedLine(last.result[1], 4) \o <<"\n">> \o
              ExpectedLine(last.result[1], 5) \o <<"\n">> \o
              ExpectedLine(last.result[1], 6) \o <<"\n">> \o
              ExpectedLine(last.result[1], 7) \o <<"\n">> \o
              ExpectedLine(last.result[1], 8) \o <<"\n">> \o
              ExpectedLine(last.result[1], 9)

\* Scenario D: get_mal_info(2) returned a tuple whose author is None
C9_Witness ==
    /\ last.op = "details"
    /\ last.outcome = "found"
    /\ last.arg = 2
    /\ last.result[1][4] = None
    /\ last.result[1][5] = Some(<<>>)

----------------------------------------------------------------------------
(* C10 *)

\* C10: get_partial_details is called once, by load(), and no handler that
\* runs after load() changes the cache.
C10_CacheLoadedOnce ==
    /\ [](pc # "init" => partial_calls = 1)
    /\ [][pc # "init" =>
            /\ malware_rows' = malware_rows
            /\ partial_calls' = partial_calls]_vars

\* a filter that hides a row has run, and a detail was asked for
C10_Witness ==
    /\ last.op = "details"
    /\ tree # malware_rows
    /\ Len(malware_rows) = 2
    /\ partial_calls = 1

====
